---- MODULE Spec2Model ----
(***************************************************************************)
(* Model of the two post-processing tools of the repository:               *)
(*   apply-box-wrapping.py  (the indirection pass, "Box<T>" wrapping)      *)
(*   generate-common.py     (the consolidation pass into mod.rs)           *)
(*                                                                         *)
(* Source text is modelled by its structure.  A Rust file of the           *)
(* indirection tool is a sequence of struct definitions, a struct is a     *)
(* name and a sequence of fields, and a field type expression is the       *)
(* sequence of its wrappers (outermost first) around a base name:          *)
(*   Option<Vec<Box<T>>>  is  [wrap |-> <<"Option","Vec","Box">>,          *)
(*                            base |-> "T"].                               *)
(* Regular expressions over the text are modelled by what they match on    *)
(* this structure.                                                         *)
(***************************************************************************)
EXTENDS Integers, Sequences, FiniteSets, TLC

VARIABLES
    files,                \* indirection tool: directory, file name -> content
    config,               \* BoxConfig of the invocation
    structs,              \* StructAnalyzer.structs (ordered dict)
    struct_fields_count,  \* StructAnalyzer.struct_fields_count
    nesting_depth,        \* StructAnalyzer.nesting_depth (the depth memo)
    todo,                 \* main: files of the loop not yet processed
    pc,                   \* position of the running invocation
    dry_run,              \* args.dry_run of the running invocation
    before,               \* directory as it was when the invocation started
    report,               \* file name -> changes returned by apply_boxing
    total_changes,        \* main: total_changes
    runs,                 \* reports of the completed invocations, in order
    decision,             \* last should_box_field call: its arguments and result
    stack,                \* calculate_nesting_depth: the frames of the recursion
    result,               \* calculate_nesting_depth: what the outermost call returned
    directory,            \* consolidation tool: the .rs files other than mod.rs
    mod_rs,               \* consolidation tool: the shared module mod.rs
    cpc,                  \* position of the running consolidation pass
    file_contents,        \* scan_rust_files: file name -> text, in listing order
    frequent_types,       \* print_summary: the relocation candidates
    pending,              \* remove_duplicates_from_files: files still to write
    started,              \* directory and shared module when the pass started
    passes,               \* records of the completed consolidation passes
    aborted,              \* record of the consolidation pass that was killed
    is_dir,               \* whether the directory argument names a directory
    rc                    \* exit codes of the invocations that have returned

boxVars == <<files, config, structs, struct_fields_count, nesting_depth, todo, pc,
             dry_run, before, report, total_changes, runs, decision, stack, result>>

consVars == <<directory, mod_rs, cpc, file_contents, frequent_types, pending, started,
              passes, aborted>>

argVars == <<is_dir, rc>>

vars == <<boxVars, consVars, argVars>>

----------------------------------------------------------------------------
(* Bounds of the model *)

MaxRuns == 2          \* invocations of the indirection tool in a behaviour
MaxThreshold == 2     \* largest max_nesting_depth drawn
MaxStack == 5         \* frames of calculate_nesting_depth the model follows
MaxPasses == 2        \* invocations of the consolidation tool in a behaviour

----------------------------------------------------------------------------
(* Generic helpers *)

Range(s) == {s[i] : i \in DOMAIN s}

Max(a, b) == IF a >= b THEN a ELSE b

\* Python dict keyed by .name, kept as the sequence of its entries in
\* insertion order (a reassigned key keeps its position).
dict_has(d, k) == \E i \in DOMAIN d : d[i].name = k

dict_get(d, k) == d[CHOOSE i \in DOMAIN d : d[i].name = k]

dict_set(d, entry) ==
    IF dict_has(d, entry.name)
    THEN [i \in DOMAIN d |-> IF d[i].name = entry.name THEN entry ELSE d[i]]
    ELSE Append(d, entry)

----------------------------------------------------------------------------
(* apply-box-wrapping.py : StructAnalyzer *)

Primitives ==
    {"String", "bool", "f64", "f32", "u64", "i64", "u32", "i32",
     "u16", "i16", "u8", "i8", "usize", "isize", "char"}

is_primitive_type(type_name) == type_name \in Primitives

\* re.sub(r'Box<(.+?)>', r'\1', field_type): the lazy group ends at the first
\* '>' of the expression, so the leftmost Box wrapper is the only one removed.
strip_box(wrap) ==
    LET idx == {i \in DOMAIN wrap : wrap[i] = "Box"} IN
    IF idx = {} THEN wrap
    ELSE LET k == CHOOSE i \in idx : \A j \in idx : i <= j
         IN  SubSeq(wrap, 1, k - 1) \o SubSeq(wrap, k + 1, Len(wrap))

\* 'Vec<(\w+)>' and 'Option<(\w+)>' match only the wrapper that encloses the
\* base name directly; '^(\w+)' yields the first word of the expression.
extract_core_type(field_type) ==
    LET w == strip_box(field_type.wrap)
        n == Len(w)
    IN  IF n > 0 /\ w[n] = "Vec" THEN field_type.base
        ELSE IF n > 0 /\ w[n] = "Option" THEN field_type.base
        ELSE IF n = 0 THEN field_type.base
        ELSE w[1]

\* fields of one struct body, as (field_type, core_type) per field name
parse_fields(fields) ==
    [j \in DOMAIN fields |->
        [name |-> fields[j].name,
         field_type |-> fields[j].type,
         core_type |-> extract_core_type(fields[j].type)]]

RECURSIVE parse_structs(_, _, _)
parse_structs(content, i, local_structs) ==
    IF i > Len(content) THEN local_structs
    ELSE parse_structs(content, i + 1,
            dict_set(local_structs,
                     [name |-> content[i].name,
                      fields |-> parse_fields(content[i].fields)]))

RECURSIVE parse_counts(_, _, _)
parse_counts(content, i, counts) ==
    IF i > Len(content) THEN counts
    ELSE parse_counts(content, i + 1,
            (content[i].name :> Len(content[i].fields)) @@ counts)

\* parse_file: the structs of the file, and the updated struct_fields_count
parse_file(content, counts) ==
    [local_structs |-> parse_structs(content, 1, <<>>),
     struct_fields_count |-> parse_counts(content, 1, counts)]

RECURSIVE calculate_nesting_depth(_, _, _, _)
RECURSIVE depth_fields(_, _, _, _, _, _)

\* the loop over the fields of struct_name; visited already holds struct_name
depth_fields(structs_, memo, fields, i, visited, max_depth) ==
    IF i > Len(fields) THEN [depth |-> max_depth, nesting_depth |-> memo]
    ELSE LET core_type == fields[i].core_type IN
         IF is_primitive_type(core_type) \/ ~dict_has(structs_, core_type)
         THEN depth_fields(structs_, memo, fields, i + 1, visited, max_depth)
         ELSE LET child == calculate_nesting_depth(structs_, memo, core_type, visited)
              IN  depth_fields(structs_, child.nesting_depth, fields, i + 1, visited,
                               Max(max_depth, child.depth + 1))

calculate_nesting_depth(structs_, memo, struct_name, visited) ==
    IF struct_name \in DOMAIN memo
    THEN [depth |-> memo[struct_name], nesting_depth |-> memo]
    ELSE IF struct_name \in visited
    THEN [depth |-> 0, nesting_depth |-> memo]
    ELSE LET fields == IF dict_has(structs_, struct_name)
                       THEN dict_get(structs_, struct_name).fields
                       ELSE <<>>
             r == depth_fields(structs_, memo, fields, 1,
                               visited \cup {struct_name}, 0)
         IN  [depth |-> r.depth,
              nesting_depth |-> (struct_name :> r.depth) @@ r.nesting_depth]

\* Regular expressions of the configuration, by the names they match at the
\* start of the subject (re.match), within the names of the model.
re_match(pattern, subject) ==
    CASE pattern = "A"     -> subject = "A"
      [] pattern = "B"     -> subject = "B"
      [] pattern = "C"     -> subject = "C"
      [] OTHER             -> FALSE

has_vec(field_type) == "Vec" \in Range(field_type.wrap)     \* 'Vec<' in field_type

has_box(field_type) == "Box" \in Range(field_type.wrap)     \* 'Box<' in field_type

\* self is the analyzer [structs, struct_fields_count, nesting_depth]; the
\* result carries the decision and the depth memo the call leaves behind.

\* the strategies with the size heuristic applied to fields of any shape
\* (the test 'Vec<' in field_type of line 202 dropped)
box_strategies_size_unwrapped(self, cfg, struct_name, field_name, field_type, core_type) ==
    LET same == [box |-> FALSE, nesting_depth |-> self.nesting_depth]
        yes  == [box |-> TRUE, nesting_depth |-> self.nesting_depth]
    IN
    IF core_type \in cfg.always_box_types THEN yes
    ELSE IF /\ cfg.use_pattern_matching
            /\ has_vec(field_type)
            /\ \/ \E i \in DOMAIN cfg.box_in_vec_patterns :
                      re_match(cfg.box_in_vec_patterns[i], core_type)
               \/ \E i \in DOMAIN cfg.box_vec_if_parent_matches :
                      re_match(cfg.box_vec_if_parent_matches[i], struct_name)
    THEN yes
    ELSE IF /\ cfg.use_size_heuristic
            /\ core_type \in DOMAIN self.struct_fields_count
            /\ self.struct_fields_count[core_type] >= cfg.min_fields_to_box
    THEN yes
    ELSE IF /\ cfg.use_nesting_analysis
            /\ has_vec(field_type)
            /\ dict_has(self.structs, core_type)
    THEN LET d == calculate_nesting_depth(self.structs, self.nesting_depth,
                                          core_type, {})
         IN  [box |-> d.depth >= cfg.max_nesting_depth,
              nesting_depth |-> d.nesting_depth]
    ELSE same

\* The strategies of should_box_field, in the order of the code:
box_strategies(self, cfg, struct_name, field_name, field_type, core_type) ==
    LET same == [box |-> FALSE, nesting_depth |-> self.nesting_depth]
        yes  == [box |-> TRUE, nesting_depth |-> self.nesting_depth]
    IN
    IF core_type \in cfg.always_box_types THEN yes
    ELSE IF /\ cfg.use_pattern_matching
            /\ has_vec(field_type)
            /\ \/ \E i \in DOMAIN cfg.box_in_vec_patterns :
                      re_match(cfg.box_in_vec_patterns[i], core_type)
               \/ \E i \in DOMAIN cfg.box_vec_if_parent_matches :
                      re_match(cfg.box_vec_if_parent_matches[i], struct_name)
    THEN yes
    ELSE IF /\ cfg.use_size_heuristic
            /\ core_type \in DOMAIN self.struct_fields_count
            /\ self.struct_fields_count[core_type] >= cfg.min_fields_to_box
            /\ has_vec(field_type)
    THEN yes
    ELSE IF /\ cfg.use_nesting_analysis
            /\ has_vec(field_type)
            /\ dict_has(self.structs, core_type)
    THEN LET d == calculate_nesting_depth(self.structs, self.nesting_depth,
                                          core_type, {})
         IN  [box |-> d.depth >= cfg.max_nesting_depth,
              nesting_depth |-> d.nesting_depth]
    ELSE same

\* should_box_field with the two guards in front of the strategies left out
should_box_field_unguarded(self, cfg, struct_name, field_name, field_type, core_type) ==
    box_strategies(self, cfg, struct_name, field_name, field_type, core_type)

should_box_field(self, cfg, struct_name, field_name, field_type, core_type) ==
    IF is_primitive_type(core_type) \/ has_box(field_type)
    THEN [box |-> FALSE, nesting_depth |-> self.nesting_depth]
    ELSE box_strategies(self, cfg, struct_name, field_name, field_type, core_type)

\* 'Vec<' + core_type + '>' in field_type
vec_of_core(field_type, core_type) ==
    /\ Len(field_type.wrap) > 0
    /\ field_type.wrap[Len(field_type.wrap)] = "Vec"
    /\ field_type.base = core_type

\* field_type == core_type
is_bare(field_type, core_type) ==
    field_type.wrap = <<>> /\ field_type.base = core_type

\* re.sub(full_pattern, ...) of the two branches: the type of field field_name
\* of every struct struct_name of the text, where the pattern matches it.
sub_field(content, struct_name, field_name, core_type, vec) ==
    [i \in DOMAIN content |->
        IF content[i].name # struct_name THEN content[i]
        ELSE [name |-> content[i].name,
              fields |->
                [j \in DOMAIN content[i].fields |->
                    LET f == content[i].fields[j] IN
                    IF f.name # field_name THEN f
                    ELSE IF vec /\ vec_of_core(f.type, core_type)
                    THEN [name |-> f.name,
                          type |-> [wrap |-> Append(f.type.wrap, "Box"),
                                    base |-> f.type.base]]
                    ELSE IF ~vec /\ is_bare(f.type, core_type)
                    THEN [name |-> f.name,
                          type |-> [wrap |-> <<"Box">>, base |-> f.type.base]]
                    ELSE f]]]

\* one iteration of the inner loop of apply_boxing, on field j of struct st;
\* acc is [content, changes, nesting_depth]
box_field(self, cfg, st, j, acc) ==
    LET f == st.fields[j]
        d == should_box_field([self EXCEPT !.nesting_depth = acc.nesting_depth],
                              cfg, st.name, f.name, f.field_type, f.core_type)
        vec == vec_of_core(f.field_type, f.core_type)
        new_content ==
            IF vec \/ is_bare(f.field_type, f.core_type)
            THEN sub_field(acc.content, st.name, f.name, f.core_type, vec)
            ELSE acc.content
    IN  IF d.box /\ new_content # acc.content
        THEN [content |-> new_content,
              changes |-> Append(acc.changes,
                                 [struct |-> st.name, field |-> f.name,
                                  old |-> f.field_type.wrap,
                                  core |-> f.core_type]),
              nesting_depth |-> d.nesting_depth]
        ELSE [acc EXCEPT !.nesting_depth = d.nesting_depth]

RECURSIVE box_fields(_, _, _, _, _)
box_fields(self, cfg, st, j, acc) ==
    IF j > Len(st.fields) THEN acc
    ELSE box_fields(self, cfg, st, j + 1, box_field(self, cfg, st, j, acc))

RECURSIVE box_structs(_, _, _, _)
box_structs(self, cfg, i, acc) ==
    IF i > Len(self.structs) THEN acc
    ELSE box_structs(self, cfg, i + 1,
                     box_fields(self, cfg, self.structs[i], 1, acc))

\* apply_boxing on the text of one file: the analyzer after the call, the text
\* the call computed, and the changes it returns.
apply_boxing(self, cfg, content) ==
    LET p == parse_file(content, self.struct_fields_count)
        an == [structs |-> p.local_structs,
               struct_fields_count |-> p.struct_fields_count,
               nesting_depth |-> self.nesting_depth]
        r == box_structs(an, cfg, 1,
                [content |-> content, changes |-> <<>>,
                 nesting_depth |-> self.nesting_depth])
    IN  [self |-> [an EXCEPT !.nesting_depth = r.nesting_depth],
         content |-> r.content,
         changes |-> r.changes]

----------------------------------------------------------------------------
(* apply-box-wrapping.py : the corpora and configurations of the model *)

TypeNames == {"A", "B", "C"}

Ty(wrap, base) == [wrap |-> wrap, base |-> base]

Field(name, type) == [name |-> name, type |-> type]

\* the types drawn for the first field of struct A
TypesA1 ==
    {Ty(<<"Vec">>, "B"), Ty(<<"Option", "Vec">>, "B"), Ty(<<>>, "B"),
     Ty(<<"Vec", "Box">>, "B")}

\* the types drawn for the second field of struct A, when it has one
TypesA2 == {Ty(<<"Vec">>, "C"), Ty(<<"Vec">>, "String")}

\* the types drawn for the field of struct B
TypesB ==
    {Ty(<<"Vec">>, "A"), Ty(<<"Vec">>, "C"), Ty(<<"Vec", "Box">>, "A")}

BodiesA ==
    {<<Field("f1", t)>> : t \in TypesA1}
    \cup {<<Field("f1", t), Field("f2", u)>> : t \in TypesA1, u \in TypesA2}

BodiesB == {<<Field("f1", t)>> : t \in TypesB}

BodyC == <<Field("x", Ty(<<>>, "String")), Field("y", Ty(<<>>, "bool"))>>

Struct(name, fields) == [name |-> name, fields |-> fields]

Reverse(s) == [i \in DOMAIN s |-> s[Len(s) + 1 - i]]

\* the directory: A in a.rs, B and C in a.rs or b.rs (B in a.rs only beside C),
\* the structs of a file in either order; mod.rs is the shared module, which
\* the tool skips.
ModRs == <<Struct("A", <<Field("f1", Ty(<<"Vec">>, "A"))>>)>>

Corpus(bodyA, bodyB, fileB, fileC, rev) ==
    LET A == Struct("A", bodyA)
        B == Struct("B", bodyB)
        C == Struct("C", BodyC)
        inA == <<A>> \o (IF fileB = "a.rs" THEN <<B>> ELSE <<>>)
                     \o (IF fileC = "a.rs" THEN <<C>> ELSE <<>>)
        inB == (IF fileB = "b.rs" THEN <<B>> ELSE <<>>)
               \o (IF fileC = "b.rs" THEN <<C>> ELSE <<>>)
    IN  ("a.rs" :> (IF rev THEN Reverse(inA) ELSE inA))
        @@ ("b.rs" :> (IF rev THEN Reverse(inB) ELSE inB))
        @@ ("mod.rs" :> ModRs)

Corpora ==
    {Corpus(a, b, fb, fc, rev) :
        a \in BodiesA, b \in BodiesB,
        fb \in {"a.rs", "b.rs"}, fc \in {"a.rs", "b.rs"}, rev \in BOOLEAN}
    \ {Corpus(a, b, "b.rs", "a.rs", rev) :
        a \in BodiesA, b \in BodiesB, rev \in BOOLEAN}

\* sorted(dir_path.glob('*.rs'))
sorted_rs == <<"a.rs", "b.rs", "mod.rs">>

Thresholds == 1..MaxThreshold

PatternSettings ==
    {[elem |-> <<>>, parent |-> <<>>], [elem |-> <<"C">>, parent |-> <<>>],
     [elem |-> <<>>, parent |-> <<"A">>]}

BoxConfig(always, pat, use_pat, min_fields, use_size, max_depth, use_nest) ==
    [always_box_types |-> always,
     box_in_vec_patterns |-> pat.elem,
     box_vec_if_parent_matches |-> pat.parent,
     min_fields_to_box |-> min_fields,
     max_nesting_depth |-> max_depth,
     use_size_heuristic |-> use_size,
     use_pattern_matching |-> use_pat,
     use_nesting_analysis |-> use_nest]

\* configurations of the pass: the size threshold is the field count of the
\* largest struct of the corpora, a disabled depth strategy keeps one threshold
Configs ==
    {BoxConfig(al, pat, TRUE, 2, us, md, un) :
        al \in {{}, {"B"}}, pat \in PatternSettings,
        us \in BOOLEAN, md \in Thresholds, un \in BOOLEAN}
    \ {BoxConfig(al, pat, TRUE, 2, us, md, FALSE) :
        al \in {{}, {"B"}}, pat \in PatternSettings,
        us \in BOOLEAN, md \in Thresholds \ {MaxThreshold}}

NoDecision == [made |-> FALSE]

NoResult == [returned |-> FALSE]

NoAbort == [happened |-> FALSE]

\* the consolidation tool is not part of the behaviour
NoConsolidation ==
    /\ directory = <<>>
    /\ mod_rs = <<>>
    /\ cpc = "none"
    /\ file_contents = <<>>
    /\ frequent_types = <<>>
    /\ pending = <<>>
    /\ started = <<>>
    /\ passes = <<>>
    /\ aborted = NoAbort

fresh_analyzer == [structs |-> <<>>, struct_fields_count |-> <<>>,
                   nesting_depth |-> <<>>]

-----------------------------------------------------------------------------
(* dry runs of the indirection tool *)

\* the file loop on a file other than mod.rs, with the test of dry_run
\* dropped from the write
ApplyBoxing_writing_dry_run ==
    /\ pc = "loop"
    /\ todo # <<>>
    /\ Head(todo) # "mod.rs"
    /\ LET file_path == Head(todo)
           self == [structs |-> structs,
                    struct_fields_count |-> struct_fields_count,
                    nesting_depth |-> nesting_depth]
           r == apply_boxing(self, config, files[file_path])
       IN  /\ structs' = r.self.structs
           /\ struct_fields_count' = r.self.struct_fields_count
           /\ nesting_depth' = r.self.nesting_depth
           /\ files' = IF r.content # files[file_path]
                       THEN [files EXCEPT ![file_path] = r.content]
                       ELSE files
           /\ report' = Append(report, [file |-> file_path, changes |-> r.changes])
           /\ total_changes' = total_changes + Len(r.changes)
    /\ todo' = Tail(todo)
    /\ UNCHANGED <<config, pc, dry_run, before, runs, decision, stack, result>>
    /\ UNCHANGED consVars
    /\ UNCHANGED argVars

----------------------------------------------------------------------------
(* apply-box-wrapping.py : main *)

InitBox ==
    /\ is_dir \in BOOLEAN
    /\ rc = <<>>
    /\ files \in (IF is_dir THEN Corpora ELSE {<<>>})
    /\ config \in Configs
    /\ structs = <<>>
    /\ struct_fields_count = <<>>
    /\ nesting_depth = <<>>
    /\ todo = <<>>
    /\ pc = "idle"
    /\ dry_run = FALSE
    /\ before = files
    /\ report = <<>>
    /\ total_changes = 0
    /\ runs = <<>>
    /\ decision = NoDecision
    /\ stack = <<>>
    /\ result = NoResult
    /\ NoConsolidation

\* main up to the directory check, on a path that is not a directory: the
\* error message, exit code 1
MainNotADirectory ==
    /\ pc = "idle"
    /\ Len(rc) < MaxRuns
    /\ ~is_dir
    /\ rc' = Append(rc, 1)
    /\ UNCHANGED is_dir
    /\ UNCHANGED boxVars
    /\ UNCHANGED consVars

\* main up to the file loop: a new process, a new StructAnalyzer
Main(dry) ==
    /\ pc = "idle"
    /\ Len(runs) < MaxRuns
    /\ is_dir
    /\ pc' = "loop"
    /\ dry_run' = dry
    /\ structs' = fresh_analyzer.structs
    /\ struct_fields_count' = fresh_analyzer.struct_fields_count
    /\ nesting_depth' = fresh_analyzer.nesting_depth
    /\ todo' = sorted_rs
    /\ before' = files
    /\ report' = <<>>
    /\ total_changes' = 0
    /\ UNCHANGED <<files, config, runs, decision, stack, result>>
    /\ UNCHANGED consVars
    /\ UNCHANGED argVars

\* the file loop, on mod.rs: continue
SkipModRs ==
    /\ pc = "loop"
    /\ todo # <<>>
    /\ Head(todo) = "mod.rs"
    /\ todo' = Tail(todo)
    /\ UNCHANGED <<files, config, structs, struct_fields_count, nesting_depth,
                   pc, dry_run, before, report, total_changes, runs, decision,
                   stack, result>>
    /\ UNCHANGED consVars
    /\ UNCHANGED argVars

\* the file loop, on any other file: apply_boxing and the bookkeeping of main
ApplyBoxing ==
    /\ pc = "loop"
    /\ todo # <<>>
    /\ Head(todo) # "mod.rs"
    /\ LET file_path == Head(todo)
           self == [structs |-> structs,
                    struct_fields_count |-> struct_fields_count,
                    nesting_depth |-> nesting_depth]
           r == apply_boxing(self, config, files[file_path])
       IN  /\ structs' = r.self.structs
           /\ struct_fields_count' = r.self.struct_fields_count
           /\ nesting_depth' = r.self.nesting_depth
           /\ files' = IF ~dry_run /\ r.content # files[file_path]
                       THEN [files EXCEPT ![file_path] = r.content]
                       ELSE files
           /\ report' = Append(report, [file |-> file_path, changes |-> r.changes])
           /\ total_changes' = total_changes + Len(r.changes)
    /\ todo' = Tail(todo)
    /\ UNCHANGED <<config, pc, dry_run, before, runs, decision, stack, result>>
    /\ UNCHANGED consVars
    /\ UNCHANGED argVars

\* the end of main: the summary, exit code 0
Exit ==
    /\ pc = "loop"
    /\ todo = <<>>
    /\ pc' = "idle"
    /\ runs' = Append(runs, [dry_run |-> dry_run, report |-> report,
                             total_changes |-> total_changes,
                             before |-> before, after |-> files])
    /\ UNCHANGED <<files, config, structs, struct_fields_count, nesting_depth,
                   todo, dry_run, before, report, total_changes, decision,
                   stack, result>>
    /\ UNCHANGED consVars
    /\ rc' = Append(rc, 0)
    /\ UNCHANGED is_dir

NextBox ==
    \/ MainNotADirectory
    \/ \E dry \in BOOLEAN : Main(dry)
    \/ SkipModRs
    \/ ApplyBoxing
    \/ Exit

SpecBox == InitBox /\ [][NextBox]_vars

----------------------------------------------------------------------------
(* The indirection pass: properties *)

\* the fields of a directory, excluding the shared module, as
\* [file, struct, field, type]
FieldsOf(dir) ==
    {[file |-> fn, struct |-> dir[fn][i].name,
      field |-> dir[fn][i].fields[j].name, type |-> dir[fn][i].fields[j].type] :
        <<fn, i, j>> \in
            {<<fn, i, j>> \in (DOMAIN dir \ {"mod.rs"}) \X (1..3) \X (1..2) :
                i \in DOMAIN dir[fn] /\ j \in DOMAIN dir[fn][i].fields}}

NumBox(wrap) == Cardinality({i \in DOMAIN wrap : wrap[i] = "Box"})

\* C1: a writing pass run to completion and followed by another pass on the
\* result: the second pass reports zero changes and leaves every file as it was.
C1_SecondPassChangesNothing ==
    \A k \in DOMAIN runs :
        (k > 1 /\ ~runs[k - 1].dry_run) =>
            /\ runs[k].total_changes = 0
            /\ runs[k].after = runs[k].before

\* C8: in every pass a field whose core type is primitive, and a field whose
\* declared type already carries Box, keeps its type expression, and no field
\* carries two Box wrappers.
C8_PrimitiveAndBoxedUntouched ==
    /\ \A f \in FieldsOf(before) :
          (extract_core_type(f.type) \in Primitives \/ has_box(f.type))
              => f \in FieldsOf(files)
    /\ \A f \in FieldsOf(files) : NumBox(f.type.wrap) <= 1

\* C8 witness: a writing pass has boxed a field of a.rs while a primitive
\* sequence field and an already boxed field sit in structs that a parent
\* pattern or the allow-list would otherwise select.
C8_Witness ==
    /\ pc = "idle"
    /\ runs # <<>>
    /\ ~runs[1].dry_run
    /\ runs[1].total_changes > 0
    /\ config.box_vec_if_parent_matches = <<"A">>
    /\ \E f \in FieldsOf(runs[1].before) :
          /\ f.struct = "A"
          /\ f.type = Ty(<<"Vec">>, "String")
          /\ f \in FieldsOf(files)
    /\ \E f \in FieldsOf(runs[1].before) :
          /\ has_box(f.type)
          /\ f \in FieldsOf(files)

\* the corpus-wide name -> definition map (every file but the shared module)
CorpusStructs(dir) ==
    {s \in UNION {Range(dir[fn]) : fn \in DOMAIN dir \ {"mod.rs"}} : TRUE}

Defined(dir) == {s.name : s \in CorpusStructs(dir)}

\* the non-primitive children of a type, over the corpus-wide map
Children(dir, name) ==
    {extract_core_type(s.fields[j].type) :
        <<s, j>> \in {<<s, j>> \in CorpusStructs(dir) \X (1..2) :
                        s.name = name /\ j \in DOMAIN s.fields}}
    \ Primitives

RECURSIVE ReachIn(_, _, _)
ReachIn(dir, from, n) ==
    IF n = 0 THEN from
    ELSE ReachIn(dir, from \cup UNION {Children(dir, t) : t \in from}, n - 1)

Acyclic(dir) ==
    \A t \in Defined(dir) :
        t \notin ReachIn(dir, Children(dir, t), Cardinality(Defined(dir)))

\* depth as the data model states it, over an acyclic corpus-wide map
RECURSIVE DepthOf(_, _)
DepthOf(dir, name) ==
    LET ch == Children(dir, name) \cap Defined(dir) IN
    IF ch = {} THEN 0
    ELSE LET ds == {DepthOf(dir, c) : c \in ch}
         IN  1 + CHOOSE d \in ds : \A e \in ds : e <= d

\* C9: on an acyclic type graph whose references are all defined, every depth
\* the analyzer has computed is 0 for a type without non-primitive child and
\* 1 + the largest depth of its children otherwise, over the corpus-wide map.
C9_DepthOverCorpusWideMap ==
    (/\ Acyclic(files)
     /\ \A t \in Defined(files) : Children(files, t) \subseteq Defined(files))
        => \A t \in DOMAIN nesting_depth : nesting_depth[t] = DepthOf(files, t)

----------------------------------------------------------------------------
(* should_box_field, called on the fields of the file being processed *)

\* configurations of a decision: every combination of the settings
DecideConfigs ==
    {BoxConfig(al, [elem |-> el, parent |-> pa], up, mf, us, md, un) :
        al \in {{}, {"B"}}, el \in {<<>>, <<"B">>}, pa \in {<<>>, <<"A">>},
        up \in BOOLEAN, mf \in Thresholds, us \in BOOLEAN,
        md \in Thresholds, un \in BOOLEAN}
    \ {BoxConfig(al, [elem |-> el, parent |-> pa], up, mf, us, md, un) :
        al \in {{}, {"B"}}, el \in {<<>>, <<"B">>}, pa \in {<<>>, <<"A">>},
        up \in BOOLEAN,
        <<mf, us, md, un>> \in
            {q \in Thresholds \X BOOLEAN \X Thresholds \X BOOLEAN :
                \/ ~q[2] /\ q[1] # MaxThreshold
                \/ ~q[4] /\ q[3] # MaxThreshold}}

\* the analyzer as apply_boxing has it after parse_file (line 223) of file fn
\* of the directory: fresh on a.rs, as the pass over a.rs left it on b.rs
AnalyzerAt(dir, cfg, fn) ==
    LET self0 == IF fn = "a.rs" THEN fresh_analyzer
                 ELSE apply_boxing(fresh_analyzer, cfg, dir["a.rs"]).self
        p == parse_file(dir[fn], self0.struct_fields_count)
    IN  [structs |-> p.local_structs,
         struct_fields_count |-> p.struct_fields_count,
         nesting_depth |-> self0.nesting_depth]

InitDecide ==
    /\ config \in DecideConfigs
    /\ \E dir \in {d \in Corpora : d["a.rs"][1].name = "A"}, fn \in {"a.rs", "b.rs"} :
          LET an == AnalyzerAt(dir, config, fn) IN
          /\ structs = an.structs
          /\ struct_fields_count = an.struct_fields_count
          /\ nesting_depth = an.nesting_depth
    /\ files = <<>>
    /\ todo = <<>>
    /\ pc = "boxing"
    /\ dry_run = FALSE
    /\ before = <<>>
    /\ report = <<>>
    /\ total_changes = 0
    /\ runs = <<>>
    /\ decision = NoDecision
    /\ stack = <<>>
    /\ result = NoResult
    /\ NoConsolidation
    /\ is_dir = TRUE
    /\ rc = <<>>

\* one call of should_box_field on a field of self.structs
ShouldBoxField ==
    /\ pc = "boxing"
    /\ \E i \in DOMAIN structs : \E j \in DOMAIN structs[i].fields :
          LET f == structs[i].fields[j]
              self == [structs |-> structs,
                       struct_fields_count |-> struct_fields_count,
                       nesting_depth |-> nesting_depth]
              d == should_box_field(self, config, structs[i].name, f.name,
                                    f.field_type, f.core_type)
          IN  /\ decision' = [made |-> TRUE, self |-> self,
                              struct_name |-> structs[i].name,
                              field_name |-> f.name,
                              field_type |-> f.field_type,
                              core_type |-> f.core_type, box |-> d.box]
              /\ nesting_depth' = d.nesting_depth
    /\ UNCHANGED <<files, config, structs, struct_fields_count, todo, pc, dry_run,
                   before, report, total_changes, runs, stack, result>>
    /\ UNCHANGED consVars
    /\ UNCHANGED argVars

NextDecide == ShouldBoxField

SpecDecide == InitDecide /\ [][NextDecide]_vars

\* The five strategies, as predicates of a field and a configuration; the
\* depth is the one the analyzer computes in the state of the call.
Strategy(k, self, cfg, struct_name, field_type, core_type) ==
    CASE k = 1 -> core_type \in cfg.always_box_types
      [] k = 2 -> /\ cfg.use_pattern_matching
                  /\ "Vec" \in Range(field_type.wrap)
                  /\ \E i \in DOMAIN cfg.box_in_vec_patterns :
                        re_match(cfg.box_in_vec_patterns[i], core_type)
      [] k = 3 -> /\ cfg.use_pattern_matching
                  /\ "Vec" \in Range(field_type.wrap)
                  /\ \E i \in DOMAIN cfg.box_vec_if_parent_matches :
                        re_match(cfg.box_vec_if_parent_matches[i], struct_name)
      [] k = 4 -> /\ cfg.use_size_heuristic
                  /\ "Vec" \in Range(field_type.wrap)
                  /\ core_type \in DOMAIN self.struct_fields_count
                  /\ self.struct_fields_count[core_type] >= cfg.min_fields_to_box
      [] k = 5 -> /\ cfg.use_nesting_analysis
                  /\ "Vec" \in Range(field_type.wrap)
                  /\ dict_has(self.structs, core_type)
                  /\ calculate_nesting_depth(self.structs, self.nesting_depth,
                                             core_type, {}).depth
                        >= cfg.max_nesting_depth

\* the configuration with strategy k disabled and every other setting kept
Disabled(k, cfg) ==
    CASE k = 1 -> [cfg EXCEPT !.always_box_types = {}]
      [] k = 2 -> [cfg EXCEPT !.box_in_vec_patterns = <<>>]
      [] k = 3 -> [cfg EXCEPT !.box_vec_if_parent_matches = <<>>]
      [] k = 4 -> [cfg EXCEPT !.use_size_heuristic = FALSE]
      [] k = 5 -> [cfg EXCEPT !.use_nesting_analysis = FALSE]

Firing(d, cfg) ==
    {k \in 1..5 : Strategy(k, d.self, cfg, d.struct_name, d.field_type, d.core_type)}

----------------------------------------------------------------------------
(* calculate_nesting_depth, one step of the recursion at a time *)

\* the entry of a call without the test of the visited set (lines 145-146)
enter_unguarded(memo, struct_name, visited) ==
    IF struct_name \in DOMAIN memo
    THEN [returns |-> TRUE, depth |-> memo[struct_name]]
    ELSE [returns |-> FALSE, visited |-> visited \cup {struct_name}]

\* the entry of a call (lines 139-148): a cached depth, 0 on a type of the
\* current path, or the visited set the body runs with
enter(memo, struct_name, visited) ==
    IF struct_name \in DOMAIN memo
    THEN [returns |-> TRUE, depth |-> memo[struct_name]]
    ELSE IF struct_name \in visited
    THEN [returns |-> TRUE, depth |-> 0]
    ELSE [returns |-> FALSE, visited |-> visited \cup {struct_name}]

\* the frame of a call that runs its body (lines 150-152)
Frame(structs_, struct_name, visited) ==
    [struct_name |-> struct_name,
     visited |-> visited,
     fields |-> IF dict_has(structs_, struct_name)
                THEN dict_get(structs_, struct_name).fields
                ELSE <<>>,
     i |-> 1,
     max_depth |-> 0]

\* the type graphs of the depth computation: A and B defined, C defined or
\* not, each with no field, one sequence field or a sequence and an optional
\* field, over the three names and a primitive
DepthBodies ==
    {<<>>}
    \cup {<<Field("f1", Ty(<<"Vec">>, x))>> : x \in TypeNames \cup {"String"}}
    \cup {<<Field("f1", Ty(<<"Vec">>, x)), Field("f2", Ty(<<"Option">>, y))>> :
            <<x, y>> \in {q \in TypeNames \X TypeNames : q[1] # q[2]}}

DepthGraphs ==
    {parse_structs(<<Struct("A", a), Struct("B", b), Struct("C", c)>>, 1, <<>>) :
        a \in DepthBodies, b \in DepthBodies, c \in DepthBodies}
    \cup {parse_structs(<<Struct("A", a), Struct("B", b)>>, 1, <<>>) :
        a \in DepthBodies, b \in DepthBodies}

InitDepth ==
    /\ structs \in DepthGraphs
    /\ nesting_depth = <<>>
    /\ stack = <<>>
    /\ result = NoResult
    /\ pc = "depth"
    /\ struct_fields_count = <<>>
    /\ config = <<>>
    /\ files = <<>>
    /\ todo = <<>>
    /\ dry_run = FALSE
    /\ before = <<>>
    /\ report = <<>>
    /\ total_changes = 0
    /\ runs = <<>>
    /\ decision = NoDecision
    /\ NoConsolidation
    /\ is_dir = TRUE
    /\ rc = <<>>

\* an outermost call calculate_nesting_depth(struct_name), visited = None
CallDepth(struct_name) ==
    /\ pc = "depth"
    /\ stack = <<>>
    /\ LET e == enter(nesting_depth, struct_name, {}) IN
       IF e.returns
       THEN /\ result' = [returned |-> TRUE, struct_name |-> struct_name,
                          at_call |-> nesting_depth, depth |-> e.depth]
            /\ stack' = stack
       ELSE /\ result' = [returned |-> FALSE, struct_name |-> struct_name,
                          at_call |-> nesting_depth]
            /\ stack' = <<Frame(structs, struct_name, e.visited)>>
    /\ UNCHANGED <<files, config, structs, struct_fields_count, nesting_depth,
                   todo, pc, dry_run, before, report, total_changes, runs,
                   decision>>
    /\ UNCHANGED consVars
    /\ UNCHANGED argVars

\* one iteration of the field loop of the innermost call (lines 152-158)
StepField ==
    /\ stack # <<>>
    /\ LET n == Len(stack)
           top == stack[n]
       IN  /\ top.i <= Len(top.fields)
           /\ LET core_type == top.fields[top.i].core_type
                  e == enter(nesting_depth, core_type, top.visited)
              IN  IF is_primitive_type(core_type) \/ ~dict_has(structs, core_type)
                  THEN stack' = [stack EXCEPT ![n].i = top.i + 1]
                  ELSE IF e.returns
                  THEN stack' = [stack EXCEPT
                                    ![n].i = top.i + 1,
                                    ![n].max_depth = Max(top.max_depth, e.depth + 1)]
                  ELSE /\ n < MaxStack
                       /\ stack' = Append(stack, Frame(structs, core_type, e.visited))
    /\ UNCHANGED <<files, config, structs, struct_fields_count, nesting_depth,
                   todo, pc, dry_run, before, report, total_changes, runs,
                   decision, result>>
    /\ UNCHANGED consVars
    /\ UNCHANGED argVars

\* the end of the innermost call (lines 160-161) and, in its caller, line 158
Return ==
    /\ stack # <<>>
    /\ LET n == Len(stack)
           top == stack[n]
       IN  /\ top.i > Len(top.fields)
           /\ nesting_depth' = (top.struct_name :> top.max_depth) @@ nesting_depth
           /\ IF n = 1
              THEN /\ stack' = <<>>
                   /\ result' = [returned |-> TRUE, struct_name |-> top.struct_name,
                                 at_call |-> result.at_call,
                                 depth |-> top.max_depth]
              ELSE /\ stack' = [SubSeq(stack, 1, n - 1) EXCEPT
                                   ![n - 1].i = stack[n - 1].i + 1,
                                   ![n - 1].max_depth =
                                       Max(stack[n - 1].max_depth, top.max_depth + 1)]
                   /\ result' = result
    /\ UNCHANGED <<files, config, structs, struct_fields_count, todo, pc, dry_run,
                   before, report, total_changes, runs, decision>>
    /\ UNCHANGED consVars
    /\ UNCHANGED argVars

NextDepth ==
    \/ \E struct_name \in TypeNames : CallDepth(struct_name)
    \/ StepField
    \/ Return

\* the interpreter keeps executing a call that has started
SpecDepth == InitDepth /\ [][NextDepth]_vars /\ WF_vars(StepField \/ Return)

NumDefined == Cardinality({structs[i].name : i \in DOMAIN structs})

\* C10: on every type graph, cyclic ones included, every call of depth(T)
\* returns, and every depth returned or cached is an integer between 0 and
\* the number of defined types; the recursion is never deeper than that number.
C10_DepthTerminatesBounded ==
    /\ [](/\ Len(stack) <= NumDefined
          /\ result.returned => result.depth \in 0..NumDefined
          /\ \A t \in DOMAIN nesting_depth : nesting_depth[t] \in 0..NumDefined)
    /\ []<>(stack = <<>>)

\* C10 witness: an outermost call has returned depth 3 on a graph of three
\* types, which only a graph with a reference cycle yields
C10_Witness ==
    /\ result.returned
    /\ stack = <<>>
    /\ result.depth = 3
    /\ DOMAIN nesting_depth = {"A", "B", "C"}

\* the step machine and the recursive definition agree on every outermost
\* call: the depth returned and the memo left behind
DepthMachineAgrees ==
    (result.returned /\ stack = <<>>) =>
        calculate_nesting_depth(structs, result.at_call, result.struct_name, {})
            = [depth |-> result.depth, nesting_depth |-> nesting_depth]

-----------------------------------------------------------------------------
(* generate-common.py : the consolidation tool *)

\* The text of a file is the sequence of its items.  A "def" item is a span
\* struct_pattern matches: the naming comment "// Name: ...", the derive
\* attribute and "pub struct|enum Name {" up to the first closing brace; nl
\* tells whether that brace is followed by a newline (it is not when the file
\* ends there, or when the brace closes a nested "{ }" inside the body).  An
\* "impl" item is a span impl_pattern matches, a "marker" item is a comment
\* line "// Name ..." and "header" is the licence header of mod.rs.  The tag
\* text identifies the characters of the item.
Def(name, text, nl) == [kind |-> "def", name |-> name, text |-> text, nl |-> nl]

Impl(name, text) == [kind |-> "impl", name |-> name, text |-> text]

Marker(name) == [kind |-> "marker", name |-> name]

Header == [kind |-> "header"]

IsDef(it) == it.kind = "def"

\* struct_pattern.finditer(content)
struct_matches(content) == SelectSeq(content, IsDef)

IsImplOf(it, type_name) == it.kind = "impl" /\ it.name = type_name

\* type_name in impl_map
in_impl_map(content, type_name) ==
    \E i \in DOMAIN content : IsImplOf(content[i], type_name)

\* impl_map[type_name]: a later impl block of the name replaces an earlier one
impl_map(content, type_name) ==
    content[CHOOSE i \in DOMAIN content :
                /\ IsImplOf(content[i], type_name)
                /\ \A j \in DOMAIN content :
                       IsImplOf(content[j], type_name) => j <= i]

\* complete_content of one struct match
complete_content(content, struct_match) ==
    IF in_impl_map(content, struct_match.name)
    THEN <<struct_match, impl_map(content, struct_match.name)>>
    ELSE <<struct_match>>

\* type_locations[type_name].append(struct_match_obj) on the defaultdict
locations_append(type_locations, type_name, struct_match_obj) ==
    IF dict_has(type_locations, type_name)
    THEN dict_set(type_locations,
                  [name |-> type_name,
                   matches |-> Append(dict_get(type_locations, type_name).matches,
                                      struct_match_obj)])
    ELSE Append(type_locations,
                [name |-> type_name, matches |-> <<struct_match_obj>>])

\* the loop over the struct matches of one file
RECURSIVE scan_matches(_, _, _, _, _)
scan_matches(filename, content, ms, i, type_locations) ==
    IF i > Len(ms) THEN type_locations
    ELSE scan_matches(filename, content, ms, i + 1,
            locations_append(type_locations, ms[i].name,
                [filename |-> filename,
                 content |-> complete_content(content, ms[i])]))

\* the loop over rust_files
RECURSIVE scan_files(_, _, _, _)
scan_files(dir_, rust_files, i, type_locations) ==
    IF i > Len(rust_files) THEN type_locations
    ELSE LET content == dict_get(dir_, rust_files[i]).content IN
         scan_files(dir_, rust_files, i + 1,
            scan_matches(rust_files[i], content, struct_matches(content), 1,
                         type_locations))

\* scan_rust_files, rust_files being the listing os.listdir returned; the
\* usage counts only order the printed summary and are left out, and
\* lowercase_matches is never filled
scan_rust_files(dir_, rust_files) ==
    [type_locations |-> scan_files(dir_, rust_files, 1, <<>>),
     file_contents |->
        [i \in DOMAIN rust_files |->
            [name |-> rust_files[i],
             content |-> dict_get(dir_, rust_files[i]).content]],
     lowercase_matches |-> <<>>]

\* the type names of the model, in the order sorted() gives them
sorted_names == <<"Document", "Party", "ReportV01">>

\* type_name.endswith(('V01', ..., 'V10'))
ends_with_version(type_name) == type_name \in {"ReportV01"}

\* 'DOCUMENT' in type_name.upper() or 'MESSAGE' in type_name.upper()
has_document_marker(type_name) == type_name \in {"Document"}

\* print_summary: root_structs
root_structs(type_locations) ==
    {type_locations[i].name : i \in
        {j \in DOMAIN type_locations :
            /\ \/ ends_with_version(type_locations[j].name)
               \/ has_document_marker(type_locations[j].name)
               \/ Len(type_locations[j].matches) = 1
            /\ Len(type_locations[j].matches) = 1}}

\* print_summary: frequent_types, <<>> where the code returns None
print_summary(type_locations) ==
    LET frequent(e) == /\ e.name \notin root_structs(type_locations)
                       /\ Len(e.matches) > 1
    IN  SelectSeq(type_locations, frequent)

\* read_existing_mod: the names on "// Name ..." lines, and the text
read_existing_mod(mod) ==
    IF ~mod.exists
    THEN [existing_structs |-> {}, content |-> <<>>]
    ELSE [existing_structs |->
            {mod.text[i].name : i \in
                {j \in DOMAIN mod.text : mod.text[j].kind = "marker"}},
          content |-> mod.text]

\* a copied span inside mod.rs: join puts a newline after it
joined(content) ==
    [i \in DOMAIN content |->
        IF IsDef(content[i]) THEN [content[i] EXCEPT !.nl = TRUE]
        ELSE content[i]]

\* the loop over sorted(duplicate_types.items())
RECURSIVE new_content(_, _, _)
new_content(duplicate_types, existing_types, k) ==
    IF k > Len(sorted_names) THEN <<>>
    ELSE LET type_name == sorted_names[k] IN
         (IF dict_has(duplicate_types, type_name)
             /\ type_name \notin existing_types
          THEN joined(dict_get(duplicate_types, type_name).matches[1].content)
          ELSE <<>>)
         \o new_content(duplicate_types, existing_types, k + 1)

\* generate_mod_file: the mod.rs it writes
generate_mod_file(duplicate_types, mod) ==
    LET existing == read_existing_mod(mod)
        existing_content == IF existing.content = <<>> THEN <<Header>>
                            ELSE existing.content
    IN  [exists |-> TRUE,
         text |-> existing_content
                  \o new_content(duplicate_types, existing.existing_structs, 1)]

\* pattern.sub('', content) for the removal pattern of type_name: a def of the
\* name whose closing brace is followed by a newline, with the impl block of
\* the name when it comes next
RECURSIVE removal_sub(_, _)
removal_sub(content, type_name) ==
    IF content = <<>> THEN <<>>
    ELSE LET h == Head(content)
             rest == Tail(content)
         IN  IF IsDef(h) /\ h.name = type_name /\ h.nl
             THEN IF rest # <<>> /\ IsImplOf(Head(rest), type_name)
                  THEN removal_sub(Tail(rest), type_name)
                  ELSE removal_sub(rest, type_name)
             ELSE <<h>> \o removal_sub(rest, type_name)

\* the loop over the matches of one type
RECURSIVE remove_matches(_, _, _, _)
remove_matches(type_name, matches, i, contents) ==
    IF i > Len(matches) THEN contents
    ELSE LET filename == matches[i].filename IN
         remove_matches(type_name, matches, i + 1,
            IF dict_has(contents, filename)
            THEN dict_set(contents,
                    [name |-> filename,
                     content |-> removal_sub(dict_get(contents, filename).content,
                                             type_name)])
            ELSE contents)

\* remove_duplicates_from_files: the loop over duplicate_types.items()
RECURSIVE remove_duplicates(_, _, _)
remove_duplicates(duplicate_types, k, contents) ==
    IF k > Len(duplicate_types) THEN contents
    ELSE remove_duplicates(duplicate_types, k + 1,
            remove_matches(duplicate_types[k].name, duplicate_types[k].matches,
                           1, contents))

-----------------------------------------------------------------------------
(* the consolidation tool run on a directory, pass after pass *)

ConsNames == {sorted_names[k] : k \in DOMAIN sorted_names}

\* one definition as the generator emits it: alone, followed by its
\* validation impl block, or with a closing brace no newline follows
Shapes == {"plain", "validated", "open"}

Unit(name, shape, text) ==
    IF shape = "validated" THEN <<Def(name, text, TRUE), Impl(name, text)>>
    ELSE <<Def(name, text, shape = "plain")>>

Units(text) == {Unit(n, s, text) : n \in ConsNames, s \in Shapes}

\* a.rs holds up to two definitions, the validation block of the first next
\* to it or at the end of the file, and b.rs up to one; every definition has
\* characters of its own
Directories ==
    {<<[name |-> "a.rs", content |-> a], [name |-> "b.rs", content |-> b]>> :
        a \in {<<>>} \cup Units("a1")
                \cup {u \o v : u \in Units("a1"), v \in Units("a2")}
                \cup {<<Def(n, "a1", TRUE)>> \o v \o <<Impl(n, "a1")>> :
                          n \in ConsNames, v \in Units("a2")},
        b \in {<<>>} \cup Units("b1")}

\* mod.rs: missing, left by an earlier pass over other files (the copies
\* carry "// Party: ..." comments), or with a "// Party ..." line before the
\* definition
ModFiles ==
    {[exists |-> FALSE, text |-> <<>>],
     [exists |-> TRUE, text |-> <<Header>> \o Unit("Party", "validated", "m1")],
     [exists |-> TRUE,
      text |-> <<Header, Marker("Party")>> \o Unit("Party", "validated", "m1")]}

\* os.listdir returns the names in arbitrary order
Listings == {<<"a.rs", "b.rs">>, <<"b.rs", "a.rs">>}

\* the indirection tool is not part of the behaviour
NoBoxing ==
    /\ files = <<>>
    /\ config = <<>>
    /\ structs = <<>>
    /\ struct_fields_count = <<>>
    /\ nesting_depth = <<>>
    /\ todo = <<>>
    /\ pc = "none"
    /\ dry_run = FALSE
    /\ before = <<>>
    /\ report = <<>>
    /\ total_changes = 0
    /\ runs = <<>>
    /\ decision = NoDecision
    /\ stack = <<>>
    /\ result = NoResult

InitCons ==
    /\ is_dir \in BOOLEAN
    /\ rc = <<>>
    /\ directory \in (IF is_dir THEN Directories ELSE {<<>>})
    /\ mod_rs \in (IF is_dir THEN ModFiles ELSE {[exists |-> FALSE, text |-> <<>>]})
    /\ cpc = "idle"
    /\ file_contents = <<>>
    /\ frequent_types = <<>>
    /\ pending = <<>>
    /\ started = <<>>
    /\ passes = <<>>
    /\ aborted = NoAbort
    /\ NoBoxing

\* main: scan_rust_files and print_summary; nothing is written when there is
\* no frequent type.  On a path that is not a directory scan_rust_files prints
\* a message and returns its empty collections.
ScanAndSummarize(rust_files) ==
    /\ cpc = "idle"
    /\ Len(passes) < MaxPasses
    /\ LET scan == IF is_dir THEN scan_rust_files(directory, rust_files)
                   ELSE [type_locations |-> <<>>, file_contents |-> <<>>,
                         lowercase_matches |-> <<>>]
           frequent == print_summary(scan.type_locations)
       IN  /\ file_contents' = scan.file_contents
           /\ frequent_types' = frequent
           /\ cpc' = IF frequent # <<>> THEN "generate" ELSE "exit"
    /\ started' = [directory |-> directory, mod_rs |-> mod_rs,
                   rust_files |-> rust_files]
    /\ UNCHANGED <<directory, mod_rs, pending, passes>>
    /\ UNCHANGED aborted
    /\ UNCHANGED boxVars
    /\ UNCHANGED argVars

\* main: generate_mod_file writes mod.rs
GenerateModFile ==
    /\ cpc = "generate"
    /\ mod_rs' = generate_mod_file(frequent_types, mod_rs)
    /\ cpc' = "remove"
    /\ UNCHANGED <<directory, file_contents, frequent_types, pending, started,
                   passes>>
    /\ UNCHANGED aborted
    /\ UNCHANGED boxVars
    /\ UNCHANGED argVars

\* remove_duplicates_from_files: the removals, on the texts held in memory
RemoveDuplicates ==
    /\ cpc = "remove"
    /\ file_contents' = remove_duplicates(frequent_types, 1, file_contents)
    /\ pending' = [i \in DOMAIN file_contents |-> file_contents[i].name]
    /\ cpc' = "write"
    /\ UNCHANGED <<directory, mod_rs, frequent_types, started, passes>>
    /\ UNCHANGED aborted
    /\ UNCHANGED boxVars
    /\ UNCHANGED argVars

\* remove_duplicates_from_files: the write loop, one file
WriteOriginal ==
    /\ cpc = "write"
    /\ pending # <<>>
    /\ directory' = dict_set(directory, dict_get(file_contents, Head(pending)))
    /\ pending' = Tail(pending)
    /\ UNCHANGED <<mod_rs, cpc, file_contents, frequent_types, started, passes>>
    /\ UNCHANGED aborted
    /\ UNCHANGED boxVars
    /\ UNCHANGED argVars

\* the type names main reports as added: frequent names not in seed_types
new_types(frequent, seed_mod) ==
    {frequent[i].name : i \in DOMAIN frequent}
        \ read_existing_mod(seed_mod).existing_structs

\* main returns 0
ConsReturn ==
    /\ \/ cpc = "exit"
       \/ cpc = "write" /\ pending = <<>>
    /\ passes' = Append(passes,
            [rust_files |-> started.rust_files,
             frequent |-> {frequent_types[i].name : i \in DOMAIN frequent_types},
             new_types |-> new_types(frequent_types, started.mod_rs),
             before |-> [directory |-> started.directory,
                         mod_rs |-> started.mod_rs],
             after |-> [directory |-> directory, mod_rs |-> mod_rs]])
    /\ cpc' = "idle"
    /\ file_contents' = <<>>
    /\ frequent_types' = <<>>
    /\ started' = <<>>
    /\ UNCHANGED <<directory, mod_rs, pending>>
    /\ UNCHANGED aborted
    /\ UNCHANGED boxVars
    /\ rc' = Append(rc, 0)
    /\ UNCHANGED is_dir

\* the process is killed after generate_mod_file has written mod.rs and the
\* write loop has written some of the original files; the model follows one
\* such pass, the first of the behaviour
Abort ==
    /\ cpc \in {"remove", "write"}
    /\ passes = <<>>
    /\ ~aborted.happened
    /\ aborted' = [happened |-> TRUE,
                   before |-> [directory |-> started.directory,
                               mod_rs |-> started.mod_rs],
                   frequent |-> {frequent_types[i].name : i \in DOMAIN frequent_types},
                   unwritten |-> IF cpc = "remove"
                                 THEN {file_contents[i].name : i \in DOMAIN file_contents}
                                 ELSE Range(pending)]
    /\ cpc' = "idle"
    /\ file_contents' = <<>>
    /\ frequent_types' = <<>>
    /\ pending' = <<>>
    /\ started' = <<>>
    /\ UNCHANGED <<directory, mod_rs, passes>>
    /\ UNCHANGED boxVars
    /\ UNCHANGED argVars

NextCons ==
    \/ \E rust_files \in Listings : ScanAndSummarize(rust_files)
    \/ GenerateModFile
    \/ RemoveDuplicates
    \/ WriteOriginal
    \/ ConsReturn
    \/ Abort

SpecCons == InitCons /\ [][NextCons]_vars

\* every definition of the directory is followed by a newline
WellFormed(dir_) ==
    \A i \in DOMAIN dir_ : \A j \in DOMAIN dir_[i].content :
        IsDef(dir_[i].content[j]) => dir_[i].content[j].nl

\* the tool run on a fresh directory of well-formed files that define Party
\* and Document
InitConsLive ==
    /\ InitCons
    /\ is_dir
    /\ WellFormed(directory)
    /\ \A i \in DOMAIN directory : \A j \in DOMAIN directory[i].content :
          directory[i].content[j].name \in {"Party", "Document"}
    /\ ~mod_rs.exists

\* a started pass runs on, and the tool is run again as long as the bound
\* on the passes allows
SpecConsLive == InitConsLive /\ [][NextCons]_vars /\ WF_vars(NextCons)

-----------------------------------------------------------------------------
(* claims about the consolidation tool *)

IsItemOf(it, n) == it.kind \in {"def", "impl"} /\ it.name = n

\* the definitions of name n in a text
DefsOf(text, n) ==
    LET def_of_n(it) == IsDef(it) /\ it.name = n IN SelectSeq(text, def_of_n)

\* the definitions and validation blocks of name n in a text
ItemsOf(text, n) ==
    LET item_of_n(it) == IsItemOf(it, n) IN SelectSeq(text, item_of_n)

\* the original files of a directory that define n
FilesDefining(dir_, n) ==
    {dir_[i].name : i \in {j \in DOMAIN dir_ : DefsOf(dir_[j].content, n) # <<>>}}

\* the pass left every definition and validation block of n in the originals
KeptInOriginals(p, n) ==
    \A i \in DOMAIN p.before.directory :
        ItemsOf(p.after.directory[i].content, n)
            = ItemsOf(p.before.directory[i].content, n)

\* the pass appended nothing of n to the shared module
NotCopied(p, n) ==
    ItemsOf(p.after.mod_rs.text, n) = ItemsOf(p.before.mod_rs.text, n)

\* the canonical span of n: its first definition in the first file of the
\* listing that defines it, with the validation block of that file
Canonical(p, n) ==
    LET k == CHOOSE i \in DOMAIN p.rust_files :
                 /\ p.rust_files[i] \in FilesDefining(p.before.directory, n)
                 /\ \A j \in 1..(i - 1) :
                        p.rust_files[j] \notin FilesDefining(p.before.directory, n)
        content == dict_get(p.before.directory, p.rust_files[k]).content
    IN  complete_content(content, DefsOf(content, n)[1])

\* C2: a second consolidation pass on the directory a completed pass left
\* appends no definition to the shared module and removes no definition from
\* any original file.
C2_SecondPassRelocatesNothing ==
    \A k \in 2..Len(passes) : \A n \in ConsNames :
        /\ DefsOf(passes[k].after.mod_rs.text, n)
               = DefsOf(passes[k].before.mod_rs.text, n)
        /\ \A i \in DOMAIN passes[k].before.directory :
               DefsOf(passes[k].after.directory[i].content, n)
                   = DefsOf(passes[k].before.directory[i].content, n)

\* C3: a name defined in two or more files that matches no root-exclusion
\* rule is classified frequent, and after the pass the shared module holds
\* exactly one definition of it, the first occurrence with its validation
\* block, and no original file defines it any more.
C3_FrequentTypeRelocatedOnce ==
    \A k \in DOMAIN passes : \A n \in ConsNames :
        LET p == passes[k] IN
        (/\ Cardinality(FilesDefining(p.before.directory, n)) >= 2
         /\ ~ends_with_version(n)
         /\ ~has_document_marker(n))
        => /\ n \in p.frequent
           /\ ItemsOf(p.after.mod_rs.text, n) = joined(Canonical(p, n))
           /\ FilesDefining(p.after.directory, n) = {}

\* C4: when a pass has completed, every type of the corpus is either present
\* in the shared module and removed from every original file, or left
\* untouched in every original file and not copied.
C4_RelocatedAndRemovedOrUntouched ==
    \A k \in DOMAIN passes : \A n \in ConsNames :
        LET p == passes[k] IN
        FilesDefining(p.before.directory, n) # {}
        => \/ /\ DefsOf(p.after.mod_rs.text, n) # <<>>
              /\ FilesDefining(p.after.directory, n) = {}
           \/ /\ KeptInOriginals(p, n)
              /\ NotCopied(p, n)

\* C5: a type whose definitions all occur in one file is not copied to the
\* shared module and not removed from its file, however many definitions of
\* the name that file holds.
C5_SingleFileTypeNeverRelocated ==
    \A k \in DOMAIN passes : \A n \in ConsNames :
        LET p == passes[k] IN
        Cardinality(FilesDefining(p.before.directory, n)) = 1
        => /\ n \notin p.frequent
           /\ KeptInOriginals(p, n)
           /\ NotCopied(p, n)

\* C6: a type whose name ends in a version suffix or contains a
\* document/message marker is never a relocation candidate and stays in its
\* original files, also when it is defined in two or more files.
C6_RootNamedTypeNeverRelocated ==
    \A k \in DOMAIN passes : \A n \in ConsNames :
        LET p == passes[k] IN
        (/\ ends_with_version(n) \/ has_document_marker(n)
         /\ FilesDefining(p.before.directory, n) # {})
        => /\ n \notin p.frequent
           /\ KeptInOriginals(p, n)
           /\ NotCopied(p, n)

-----------------------------------------------------------------------------
(* claims about dry runs of the indirection tool *)

\* C11: a dry run leaves every file as it was, at every point of the run, and
\* reports file by file the changes a writing run on the same corpus reports.
C11_DryRunReportsAsWritingRun ==
    /\ (pc = "loop" /\ dry_run) => files = before
    /\ \A k \in DOMAIN runs : runs[k].dry_run => runs[k].after = runs[k].before
    /\ \A i \in DOMAIN runs : \A j \in DOMAIN runs :
          (/\ runs[i].dry_run
           /\ ~runs[j].dry_run
           /\ runs[i].before = runs[j].before)
          => runs[i].report = runs[j].report

\* C11 witness: a dry run followed by a writing run on the same corpus; the
\* writing run has boxed fields in both a.rs and b.rs and rewritten them
C11_Witness ==
    /\ Len(runs) = 2
    /\ runs[1].dry_run
    /\ ~runs[2].dry_run
    /\ runs[1].before = runs[2].before
    /\ runs[2].after["a.rs"] # runs[2].before["a.rs"]
    /\ runs[2].after["b.rs"] # runs[2].before["b.rs"]
    /\ \A i \in DOMAIN runs[1].report : runs[1].report[i].changes # <<>>

-----------------------------------------------------------------------------
(* claims about the directory argument *)

\* C12: when the directory argument names a missing path or a non-directory,
\* every invocation of either tool exits with code 1 and no file is created
\* or modified; exit code 0 is returned only by invocations on a directory.
C12_BadDirectoryExitsWithOne ==
    ~is_dir =>
        /\ \A k \in DOMAIN rc : rc[k] = 1
        /\ files = <<>>
        /\ cpc # "none" => (directory = <<>> /\ ~mod_rs.exists)

\* the indirection tool alone: exit code 1 and no file on a path that is not
\* a directory, exit code 0 on a directory
BoxToolChecksDirectory ==
    /\ ~is_dir => (files = <<>> /\ \A k \in DOMAIN rc : rc[k] = 1)
    /\ is_dir => \A k \in DOMAIN rc : rc[k] = 0

-----------------------------------------------------------------------------
(* claims about the order in which the indirection tool processes the files *)

\* the file loop of main run over the files in the given order: the changes
\* apply_boxing returns, file after file, on one analyzer
RECURSIVE file_loop(_, _, _, _, _)
file_loop(self, cfg, dir, order, changes) ==
    IF order = <<>> THEN changes
    ELSE IF Head(order) = "mod.rs"
    THEN file_loop(self, cfg, dir, Tail(order), changes)
    ELSE LET r == apply_boxing(self, cfg, dir[Head(order)])
         IN  file_loop(r.self, cfg, dir, Tail(order), changes \o r.changes)

\* the (type, field) pairs among the changes
BoxedPairs(changes) ==
    {<<changes[i].struct, changes[i].field>> : i \in DOMAIN changes}

\* the changes a run reported, over all its files
ChangesOf(run) ==
    LET RECURSIVE cat(_)
        cat(i) == IF i > Len(run.report) THEN <<>>
                  ELSE run.report[i].changes \o cat(i + 1)
    IN  cat(1)

\* the orders in which the files of the directory can be processed
ProcessingOrders ==
    {<<"a.rs", "b.rs", "mod.rs">>, <<"b.rs", "a.rs", "mod.rs">>,
     <<"mod.rs", "b.rs", "a.rs">>}

\* C13: the set of (type, field) pairs a run boxes is the set the file loop
\* boxes on the same corpus in every order of its files.
C13_BoxedPairsOrderIndependent ==
    \A k \in DOMAIN runs : \A order \in ProcessingOrders :
        BoxedPairs(ChangesOf(runs[k]))
            = BoxedPairs(file_loop(fresh_analyzer, config, runs[k].before,
                                   order, <<>>))

\* the file loop in the order of main is the run the actions perform
FileLoopIsTheRun ==
    \A k \in DOMAIN runs :
        ChangesOf(runs[k])
            = file_loop(fresh_analyzer, config, runs[k].before, sorted_rs, <<>>)

-----------------------------------------------------------------------------
(* claims about the shared module *)

\* C14: for every relocation candidate of a pass, nothing is appended when the
\* shared module already holds a definition of the name and the canonical
\* definition is appended once otherwise; the content the module had is kept,
\* and the module never holds two definitions of one name.
C14_NoDuplicateInSharedModule ==
    /\ \A k \in DOMAIN passes : \A n \in passes[k].frequent :
          LET p == passes[k] IN
          /\ DefsOf(p.before.mod_rs.text, n) # <<>>
                => ItemsOf(p.after.mod_rs.text, n) = ItemsOf(p.before.mod_rs.text, n)
          /\ DefsOf(p.before.mod_rs.text, n) = <<>>
                => ItemsOf(p.after.mod_rs.text, n) = joined(Canonical(p, n))
          /\ p.before.mod_rs.text # <<>>
                => SubSeq(p.after.mod_rs.text, 1, Len(p.before.mod_rs.text))
                       = p.before.mod_rs.text
    /\ \A n \in ConsNames : Len(DefsOf(mod_rs.text, n)) <= 1

-----------------------------------------------------------------------------
(* claims about a consolidation pass that was aborted *)

\* main run to completion on a directory: the directory and the shared
\* module it leaves
one_pass(dir_, mod, rust_files) ==
    LET scan == IF is_dir THEN scan_rust_files(dir_, rust_files)
                ELSE [type_locations |-> <<>>, file_contents |-> <<>>,
                      lowercase_matches |-> <<>>]
        frequent == print_summary(scan.type_locations)
        contents == remove_duplicates(frequent, 1, scan.file_contents)
    IN  IF frequent = <<>>
        THEN [directory |-> dir_, mod_rs |-> mod]
        ELSE [directory |-> [i \in DOMAIN dir_ |-> dict_get(contents, dir_[i].name)],
              mod_rs |-> generate_mod_file(frequent, mod)]

\* the actions of a completed pass compute what one_pass computes
OnePassIsThePass ==
    \A k \in DOMAIN passes :
        passes[k].after = one_pass(passes[k].before.directory,
                                   passes[k].before.mod_rs, passes[k].rust_files)

\* the corpus is as an uninterrupted pass would have left the corpus the
\* aborted pass started on, for some listing order
AsUninterrupted ==
    /\ cpc = "idle"
    /\ aborted.happened
    /\ \E rust_files \in Listings :
          [directory |-> directory, mod_rs |-> mod_rs]
              = one_pass(aborted.before.directory, aborted.before.mod_rs,
                         rust_files)

\* every type the aborted pass relocated is defined exactly once, in the
\* shared module only
Clean ==
    aborted.happened /\ \A n \in aborted.frequent :
        /\ Len(DefsOf(mod_rs.text, n)) = 1
        /\ FilesDefining(directory, n) = {}

\* C15: after a consolidation pass was aborted with the shared module and a
\* subset of the originals written, re-running the pass eventually brings the
\* corpus to the clean state one uninterrupted pass would have left: every
\* relocated type defined exactly once, in the shared module only.
C15_RerunConvergesAfterAbort ==
    aborted.happened ~> (AsUninterrupted \/ (cpc = "idle" /\ Clean))

\* under SpecConsLive: where the bound on the passes ends a behaviour that
\* has not converged, the tool has reached a fixed point: a further pass, in any listing order,
\* leaves the directory and the shared module as they are
UnconvergedIsFixedPoint ==
    (/\ aborted.happened
     /\ cpc = "idle"
     /\ Len(passes) = MaxPasses
     /\ ~(AsUninterrupted \/ Clean))
    => \A rust_files \in Listings :
          one_pass(directory, mod_rs, rust_files)
              = [directory |-> directory, mod_rs |-> mod_rs]

-----------------------------------------------------------------------------
(* claims about the depth memo *)

\* C16: at every point of an invocation every cached depth is the depth a
\* computation with an empty cache over the current definition map returns
\* for that type.
C16_MemoCoherentWithDefinitions ==
    \A t \in DOMAIN nesting_depth :
        nesting_depth[t] = calculate_nesting_depth(structs, <<>>, t, {}).depth

====
